---- MODULE Spec2Model ----
(***************************************************************************)
(* Read path of mini-lsm: the block format (block.rs), the block iterator  *)
(* (block/iterator.rs), the SST builder and iterator (table/builder.rs,    *)
(* table/iterator.rs) and the merge iterator (iterators/merge_iterator.rs).*)
(* Bytes are the integers 0..255, byte strings are sequences of bytes, and *)
(* every integer the code writes keeps its width and its byte order.       *)
(***************************************************************************)
EXTENDS Integers, Sequences, FiniteSets, TLC

VARIABLES
    comp,       \* which component this behaviour exercises: "block", "sst", "merge"
    \* ---- block.rs / block/iterator.rs
    bphase,     \* what is held: "built"/"iter" (a block made by a BlockBuilder, to
                \* encode or to iterate), "any" (any Block), "raw" (bytes), "off"
    entries,    \* ghost: the entries the held block was built from
    blk,        \* the Block: [data, offsets]
    wire,       \* bytes handed to Block::decode
    dec,        \* outcome of the last Block::decode
    wire2,      \* encoding of the decoded block
    bit,        \* the BlockIterator
    bop,        \* ghost: the last BlockIterator call and what is_valid() was before it
    \* ---- iterators/merge_iterator.rs
    mphase,     \* "input" (the sources are chosen), "ready" (created), "off"
    minput,     \* the vector of source iterators given to MergeIterator::create
    heap,       \* MergeIterator.iters: the HeapWrappers held by the BinaryHeap
    current,    \* MergeIterator.current: None or Some(HeapWrapper)
    mres,       \* what the last MergeIterator::next returned
    emitted,    \* ghost: the (key, value) pairs read so far
    mg,         \* ghost: which source errors have happened
    \* ---- table/builder.rs / table/iterator.rs
    sphase,     \* "building", "built" (build returned an SsTable), "failed", "off"
    sb,         \* the SsTableBuilder
    added,      \* ghost: the entries given to add, in order
    file,       \* the file at the path given to build: None or Some(bytes)
    table,      \* the SsTable build returned
    bres,       \* how build ended: "sstable", "io error", "panic"
    its,        \* the SsTableIterators over the table, by name: None or Some
    sop         \* ghost, per iterator: the last call, its result, the scan so far

bvars == <<bphase, entries, blk, wire, dec, wire2, bit, bop>>
mvars == <<mphase, minput, heap, current, mres, emitted, mg>>
svars == <<sphase, sb, added, file, table, bres, its, sop>>
nonBlock == <<mvars, svars>>
nonMerge == <<bvars, svars>>
nonSst == <<bvars, mvars>>
vars == <<comp, bvars, mvars, svars>>

(***************************************************************************)
(* Bounds of the model.                                                    *)
(***************************************************************************)
MaxBlockEntries == 3    \* entries of a block given to the block iterator
MaxRawLen == 4          \* length of a raw byte string given to Block::decode
MaxFieldLen == 2        \* length of data and of offsets of an arbitrary Block
MaxSources == 3         \* sources given to MergeIterator::create
MaxSourceLen == 2       \* entries of one source
MaxSstEntries == 3      \* entries added to an SsTableBuilder

KeyBytes == {1, 2}
KeyLens == {1, 2}
ValueSet == {<<>>, <<9>>}
RawBytes == {0, 1, 2}
AnyDataBytes == {0, 255}
AnyOffsets == {0, 1, 256, 65535}
BlockSizes == {8, 18, 64}

U16 == 65536

SeqsUpTo(S, n) == UNION {[1..k -> S] : k \in 0..n}

\* Keys of the model: the non-empty byte strings over KeyBytes (an empty key
\* denotes an invalid cursor, block/iterator.rs:30).
Keys == UNION {[1..k -> KeyBytes] : k \in KeyLens}

Min(a, b) == IF a < b THEN a ELSE b

\* s[a..b) with 0-based offsets, as a Rust slice.
Slice(s, a, b) == SubSeq(s, a + 1, b)

(***************************************************************************)
(* key.rs ordering: Key<T> compares its bytes lexicographically.           *)
(***************************************************************************)
KeyLess(a, b) ==
    \/ \E i \in 1..Min(Len(a), Len(b)) :
          /\ \A j \in 1..(i - 1) : a[j] = b[j]
          /\ a[i] < b[i]
    \/ /\ Len(a) < Len(b)
       /\ \A j \in 1..Len(a) : a[j] = b[j]

KeyLeq(a, b) == a = b \/ KeyLess(a, b)

\* Strictly ascending sequences of entries [key, value].
Ascending(es) == \A i \in 1..(Len(es) - 1) : KeyLess(es[i].key, es[i + 1].key)

EntrySeqs(n) ==
    {es \in SeqsUpTo([key : Keys, value : ValueSet], n) : Ascending(es)}

(***************************************************************************)
(* bytes::BufMut::put_u16 / Buf::get_u16: big-endian.                      *)
(***************************************************************************)
PutU16(n) == <<(n \div 256) % 256, n % 256>>

\* get_u16 of s at 0-based offset p.
GetU16(s, p) == s[p + 1] * 256 + s[p + 2]

PutU32(n) ==
    <<(n \div 16777216) % 256, (n \div 65536) % 256, (n \div 256) % 256, n % 256>>

RECURSIVE PutOffsets(_)
PutOffsets(offs) ==
    IF offs = <<>> THEN <<>> ELSE PutU16(offs[1]) \o PutOffsets(Tail(offs))

(***************************************************************************)
(* Block::encode and Block::decode.                                        *)
(***************************************************************************)
Block(d, o) == [data |-> d, offsets |-> o]

EmptyBlock == Block(<<>>, <<>>)

Encode(b) ==
    b.data \o PutOffsets(b.offsets) \o PutU16(Len(b.offsets) % U16)

\* A mutation of Decode: the offsets are read little-endian.
DecodeLittleEndian(data) ==
    IF Len(data) < 2 THEN [outcome |-> "panic", block |-> EmptyBlock]
    ELSE LET ptr == Len(data) - 2
             n == GetU16(data, ptr)
         IN  IF n * 2 > ptr THEN [outcome |-> "panic", block |-> EmptyBlock]
             ELSE LET optr == ptr - n * 2
                  IN  [outcome |-> "block",
                       block |-> Block(Slice(data, 0, optr),
                                       [i \in 1..n |->
                                          data[optr + 2 * i] * 256
                                          + data[optr + 2 * i - 1]])]

\* Decode returns Self, not a Result: its only failure is a panic, of the
\* subtraction `data.len() - 2` or `num_elements_ptr - num_elements * 2`
\* (overflow check) or, where those wrap, of the slice index that follows.
Decode(data) ==
    IF Len(data) < 2 THEN [outcome |-> "panic", block |-> EmptyBlock]
    ELSE LET num_elements_ptr == Len(data) - 2
             num_elements == GetU16(data, num_elements_ptr)
         IN  IF num_elements * 2 > num_elements_ptr
             THEN [outcome |-> "panic", block |-> EmptyBlock]
             ELSE LET offsets_ptr == num_elements_ptr - num_elements * 2
                  IN  [outcome |-> "block",
                       block |-> Block(Slice(data, 0, offsets_ptr),
                                       [i \in 1..num_elements |->
                                          GetU16(data, offsets_ptr + 2 * (i - 1))])]

NoDecode == [outcome |-> "none", block |-> EmptyBlock]

(***************************************************************************)
(* BlockBuilder (block/builder.rs): the record layout and the size rule.   *)
(***************************************************************************)
Record(key, value) ==
    PutU16(Len(key)) \o key \o PutU16(Len(value)) \o value

NewBlockBuilder(block_size) ==
    [data |-> <<>>, offsets |-> <<>>, block_size |-> block_size]

BBIsEmpty(bb) == bb.offsets = <<>>

\* Size of the encoded block once (key, value) is added.
BBSizeWith(bb, key, value) ==
    Len(bb.data) + Len(Record(key, value)) + 2 * (Len(bb.offsets) + 1) + 2

BBAccepts(bb, key, value) ==
    BBIsEmpty(bb) \/ BBSizeWith(bb, key, value) <= bb.block_size

BBAdd(bb, key, value) ==
    IF BBAccepts(bb, key, value)
    THEN [bb EXCEPT !.data = @ \o Record(key, value),
                    !.offsets = Append(@, Len(bb.data) % U16)]
    ELSE bb

BBBuild(bb) == Block(bb.data, bb.offsets)

RECURSIVE BlockOf(_, _)
\* The block a builder that never rejects makes of the entries es.
BlockOf(bb, es) ==
    IF es = <<>> THEN BBBuild(bb)
    ELSE BlockOf(BBAdd([bb EXCEPT !.block_size = U16], es[1].key, es[1].value),
                 Tail(es))

(***************************************************************************)
(* BlockIterator.                                                          *)
(***************************************************************************)
BlockIteratorNew(block) ==
    [block |-> block, key |-> <<>>, value_range |-> <<0, 0>>, idx |-> 0,
     first_key |-> <<>>]

BlockIterKey(it) == it.key

BlockIterValue(it) == Slice(it.block.data, it.value_range[1], it.value_range[2])

BlockIterIsValid(it) == it.key # <<>>

SeekToIndexUtil(block, index) ==
    LET offset == block.offsets[index + 1]
        key_len == GetU16(block.data, offset)
        key_content == Slice(block.data, offset + 2, offset + 2 + key_len)
        value_len == GetU16(block.data, offset + 2 + key_len)
        value_start == offset + 2 + key_len + 2
    IN  [key |-> key_content, value_range |-> <<value_start, value_start + value_len>>]

SeekToIndex(it, index) ==
    IF index >= Len(it.block.offsets)
    THEN [it EXCEPT !.key = <<>>]
    ELSE LET e == SeekToIndexUtil(it.block, index)
         IN  [it EXCEPT !.key = e.key, !.value_range = e.value_range, !.idx = index]

BlockSeekToFirst(it) == SeekToIndex(it, 0)

BlockIterNext(it) == SeekToIndex(it, it.idx + 1)

\* The key stored at offsets[i] (0-based i), as seek_to_key's closure reads it.
KeyAtOffset(block, off) ==
    Slice(block.data, off + 2, off + 2 + GetU16(block.data, off))

RECURSIVE PartitionPoint(_, _, _)
\* slice::partition_point: binary search of [lo, hi) for the first index
\* whose element fails pred; pred is given as the set of 0-based indices
\* that satisfy it.
PartitionPoint(sat, lo, hi) ==
    IF lo >= hi THEN lo
    ELSE LET mid == lo + (hi - lo) \div 2
         IN  IF mid \in sat THEN PartitionPoint(sat, mid + 1, hi)
             ELSE PartitionPoint(sat, lo, mid)

\* A mutation of BlockSeekToKey: the closure compares with <= instead of <.
BlockSeekToKeyLeq(it, key) ==
    LET n == Len(it.block.offsets)
        sat == {i \in 0..(n - 1) :
                  KeyLeq(KeyAtOffset(it.block, it.block.offsets[i + 1]), key)}
    IN  SeekToIndex(it, PartitionPoint(sat, 0, n))

BlockSeekToKey(it, key) ==
    LET n == Len(it.block.offsets)
        sat == {i \in 0..(n - 1) :
                  KeyLess(KeyAtOffset(it.block, it.block.offsets[i + 1]), key)}
    IN  SeekToIndex(it, PartitionPoint(sat, 0, n))

BlockCreateAndSeekToFirst(block) == BlockSeekToFirst(BlockIteratorNew(block))

BlockCreateAndSeekToKey(block, key) == BlockSeekToKey(BlockIteratorNew(block), key)

(***************************************************************************)
(* Option values: None, or Some(x).                                        *)
(***************************************************************************)
None == <<>>

Some(x) == <<x>>

(***************************************************************************)
(* BlockMeta and SsTable (table.rs): the meta section, block selection and *)
(* block loading.                                                          *)
(***************************************************************************)
BlockMeta(offset, first_key, last_key) ==
    [offset |-> offset, first_key |-> first_key, last_key |-> last_key]

RECURSIVE EncodeBlockMeta(_)
EncodeBlockMeta(meta) ==
    IF meta = <<>> THEN <<>>
    ELSE PutU32(meta[1].offset)
         \o PutU16(Len(meta[1].first_key)) \o meta[1].first_key
         \o PutU16(Len(meta[1].last_key)) \o meta[1].last_key
         \o EncodeBlockMeta(Tail(meta))

\* SsTable.block_cache is None, or Some of the set of the cached blocks, each
\* held under its block index.
NoTable ==
    [file |-> <<>>, block_meta |-> <<>>, block_meta_offset |-> 0,
     block_cache |-> None, first_key |-> <<>>, last_key |-> <<>>]

Cached(t, idx) ==
    IF t.block_cache = None THEN FALSE
    ELSE \E e \in t.block_cache[1] : e.idx = idx

\* SsTable::find_block_idx: the first block whose last_key is >= key.
FindBlockIdx(t, key) ==
    LET n == Len(t.block_meta)
        sat == {i \in 0..(n - 1) : KeyLess(t.block_meta[i + 1].last_key, key)}
    IN  PartitionPoint(sat, 0, n)

\* SsTable::read_block: the bytes from meta[idx].offset to the next block's
\* offset (the meta offset for the last block), decoded.  An index that
\* names no block is an out-of-bounds index of block_meta.
ReadBlockFromFile(t, idx) ==
    IF idx >= Len(t.block_meta) THEN [outcome |-> "panic", block |-> EmptyBlock]
    ELSE LET from == t.block_meta[idx + 1].offset
             to == IF idx + 1 < Len(t.block_meta)
                   THEN t.block_meta[idx + 2].offset
                   ELSE t.block_meta_offset
         IN  Decode(Slice(t.file, from, to))

\* SsTable::read_block_cached: the cached block on a hit, the block read
\* from the file otherwise.
ReadBlock(t, idx) ==
    IF Cached(t, idx)
    THEN [outcome |-> "block",
          block |-> (CHOOSE e \in t.block_cache[1] : e.idx = idx).block]
    ELSE ReadBlockFromFile(t, idx)

RECURSIVE CacheAfter(_, _)
\* The table after read_block_cached was called with the indices reads, in
\* order: a miss puts the block read from the file into the cache.
CacheAfter(t, reads) ==
    IF reads = <<>> \/ t.block_cache = None THEN t
    ELSE LET idx == reads[1]
             rb == ReadBlockFromFile(t, idx)
         IN  CacheAfter(
                 IF rb.outcome = "block" /\ ~Cached(t, idx)
                 THEN [t EXCEPT !.block_cache =
                          Some(@[1] \cup {[idx |-> idx, block |-> rb.block]})]
                 ELSE t,
                 Tail(reads))

(***************************************************************************)
(* SsTableBuilder.                                                         *)
(***************************************************************************)
SsTableBuilderNew(block_size) ==
    [builder |-> NewBlockBuilder(block_size), first_key |-> <<>>,
     last_key |-> <<>>, data |-> <<>>, meta |-> <<>>, block_size |-> block_size]

\* A mutation of SsTableBuilderAdd: after a split first_key is not reset.
SsTableBuilderAddKeepsFirstKey(b, key, value) ==
    IF BBAccepts(b.builder, key, value)
    THEN [b EXCEPT !.builder = BBAdd(@, key, value),
                   !.last_key = key,
                   !.first_key = IF @ = <<>> THEN key ELSE @]
    ELSE [b EXCEPT !.builder = BBAdd(NewBlockBuilder(b.block_size), key, value),
                   !.data = @ \o Encode(BBBuild(b.builder)),
                   !.meta = Append(@, BlockMeta(Len(b.data), b.first_key, b.last_key)),
                   !.last_key = key]

SsTableBuilderAdd(b, key, value) ==
    IF BBAccepts(b.builder, key, value)
    THEN [b EXCEPT !.builder = BBAdd(@, key, value),
                   !.last_key = key,
                   !.first_key = IF @ = <<>> THEN key ELSE @]
    ELSE [b EXCEPT !.builder = BBAdd(NewBlockBuilder(b.block_size), key, value),
                   !.data = @ \o Encode(BBBuild(b.builder)),
                   !.meta = Append(@, BlockMeta(Len(b.data), b.first_key, b.last_key)),
                   !.last_key = key,
                   !.first_key = key]

EstimatedSize(b) == Len(b.data)

\* A mutation of SealOpenBlock: the offset is taken after the block's bytes
\* are appended.
SealOpenBlockOffsetAfter(b) ==
    IF ~BBIsEmpty(b.builder)
    THEN [b EXCEPT !.builder = NewBlockBuilder(b.block_size),
                   !.meta = Append(@, BlockMeta(Len(b.data)
                                                  + Len(Encode(BBBuild(b.builder))),
                                                b.first_key, b.last_key)),
                   !.data = @ \o Encode(BBBuild(b.builder))]
    ELSE b

\* build, lines 109-123: the open block is sealed.
SealOpenBlock(b) ==
    IF ~BBIsEmpty(b.builder)
    THEN [b EXCEPT !.builder = NewBlockBuilder(b.block_size),
                   !.meta = Append(@, BlockMeta(Len(b.data), b.first_key, b.last_key)),
                   !.data = @ \o Encode(BBBuild(b.builder))]
    ELSE b

\* A mutation of SsTableBuild: the open block is not sealed.
SsTableBuildDropsOpenBlock(b, block_cache, io_ok) ==
    LET meta_offset == Len(b.data)
        data == b.data \o EncodeBlockMeta(b.meta) \o PutU32(meta_offset)
    IN  IF ~io_ok
        THEN [outcome |-> "io error", file |-> None, table |-> NoTable]
        ELSE IF b.meta = <<>>
        THEN [outcome |-> "panic", file |-> Some(data), table |-> NoTable]
        ELSE [outcome |-> "sstable", file |-> Some(data),
              table |-> [file |-> data,
                         block_meta |-> b.meta,
                         block_meta_offset |-> meta_offset,
                         block_cache |-> block_cache,
                         first_key |-> b.meta[1].first_key,
                         last_key |-> b.meta[Len(b.meta)].last_key]]

\* build: block_cache is the cache handle passed in, io_ok tells whether
\* FileObject::create succeeds.  The file is created before
\* meta.first().unwrap() is evaluated.
SsTableBuild(b, block_cache, io_ok) ==
    LET sealed == SealOpenBlock(b)
        meta_offset == Len(sealed.data)
        data == sealed.data \o EncodeBlockMeta(sealed.meta) \o PutU32(meta_offset)
    IN  IF ~io_ok
        THEN [outcome |-> "io error", file |-> None, table |-> NoTable]
        ELSE IF sealed.meta = <<>>
        THEN [outcome |-> "panic", file |-> Some(data), table |-> NoTable]
        ELSE [outcome |-> "sstable", file |-> Some(data),
              table |-> [file |-> data,
                         block_meta |-> sealed.meta,
                         block_meta_offset |-> meta_offset,
                         block_cache |-> block_cache,
                         first_key |-> sealed.meta[1].first_key,
                         last_key |-> sealed.meta[Len(sealed.meta)].last_key]]

(***************************************************************************)
(* SsTableIterator.  Each operation yields its result ("ok", the error     *)
(* message, or "panic"), the iterator it leaves, and the block indices it  *)
(* passed to read_block_cached, in order.                                  *)
(***************************************************************************)
SstIter(blk_iter, blk_idx) == [blk_iter |-> blk_iter, blk_idx |-> blk_idx]

NoIter == SstIter(BlockIteratorNew(EmptyBlock), 0)

NotValidError == "SsTableIter is not valid!"

SstKey(it) == BlockIterKey(it.blk_iter)

SstValue(it) == BlockIterValue(it.blk_iter)

\* A mutation of SstIsValid: the block index is not looked at.
SstIsValidIgnoresIndex(t, it) == BlockIterIsValid(it.blk_iter)

SstIsValid(t, it) ==
    BlockIterIsValid(it.blk_iter) /\ it.blk_idx < Len(t.block_meta)

SstCreateAndSeekToFirst(t) ==
    LET rb == ReadBlock(t, 0)
    IN  IF rb.outcome = "panic"
        THEN [res |-> "panic", it |-> NoIter, reads |-> <<0>>]
        ELSE [res |-> "ok", it |-> SstIter(BlockCreateAndSeekToFirst(rb.block), 0),
              reads |-> <<0>>]

SstSeekToFirst(t, it) ==
    LET rb == ReadBlock(t, 0)
    IN  IF rb.outcome = "panic" THEN [res |-> "panic", it |-> it, reads |-> <<0>>]
        ELSE [res |-> "ok", it |-> SstIter(BlockCreateAndSeekToFirst(rb.block), 0),
              reads |-> <<0>>]

SstCreateAndSeekToKey(t, key) ==
    LET blk_idx == FindBlockIdx(t, key)
        rb == ReadBlock(t, blk_idx)
    IN  IF rb.outcome = "panic"
        THEN [res |-> "panic", it |-> NoIter, reads |-> <<blk_idx>>]
        ELSE LET blk_iter == BlockCreateAndSeekToKey(rb.block, key)
             IN  IF blk_idx >= Len(t.block_meta)
                 THEN [res |-> "ok", it |-> SstIter(blk_iter, blk_idx),
                       reads |-> <<blk_idx>>]
                 ELSE IF ~BlockIterIsValid(blk_iter)
                 THEN IF blk_idx + 1 < Len(t.block_meta)
                      THEN LET nb == ReadBlock(t, blk_idx + 1)
                           IN  [res |-> "ok",
                                it |-> SstIter(BlockCreateAndSeekToFirst(nb.block),
                                               blk_idx + 1),
                                reads |-> <<blk_idx, blk_idx + 1>>]
                      ELSE [res |-> "ok", it |-> SstIter(blk_iter, blk_idx + 1),
                            reads |-> <<blk_idx>>]
                 ELSE [res |-> "ok", it |-> SstIter(blk_iter, blk_idx),
                       reads |-> <<blk_idx>>]

\* A mutation of SstSeekToKey: the chosen block is entered at its first key.
SstSeekToKeyFirstOfBlock(t, it, key) ==
    LET blk_idx == FindBlockIdx(t, key)
    IN  IF blk_idx >= Len(t.block_meta)
        THEN [res |-> "ok", it |-> SstIter(it.blk_iter, blk_idx), reads |-> <<>>]
        ELSE [res |-> "ok",
              it |-> SstIter(BlockCreateAndSeekToFirst(ReadBlock(t, blk_idx).block),
                             blk_idx),
              reads |-> <<blk_idx>>]

SstSeekToKey(t, it, key) ==
    LET blk_idx == FindBlockIdx(t, key)
    IN  IF blk_idx >= Len(t.block_meta)
        THEN [res |-> "ok", it |-> SstIter(it.blk_iter, blk_idx), reads |-> <<>>]
        ELSE LET blk_iter == BlockCreateAndSeekToKey(ReadBlock(t, blk_idx).block, key)
             IN  IF ~BlockIterIsValid(blk_iter)
                 THEN IF blk_idx + 1 < Len(t.block_meta)
                      THEN [res |-> "ok",
                            it |-> SstIter(BlockCreateAndSeekToFirst(
                                               ReadBlock(t, blk_idx + 1).block),
                                           blk_idx + 1),
                            reads |-> <<blk_idx, blk_idx + 1>>]
                      ELSE [res |-> "ok", it |-> SstIter(blk_iter, blk_idx + 1),
                            reads |-> <<blk_idx>>]
                 ELSE [res |-> "ok", it |-> SstIter(blk_iter, blk_idx),
                       reads |-> <<blk_idx>>]

\* A mutation of SstNextOnInvalid: the call goes on and re-seeks block 0.
SstNextOnInvalidRestarts(t, it) == SstSeekToFirst(t, it)

\* next, lines 141-143.
SstNextOnInvalid(t, it) == [res |-> NotValidError, it |-> it, reads |-> <<>>]

\* A mutation of SstNext: at the end of a block the next block is not entered.
SstNextStaysInBlock(t, it) ==
    IF ~SstIsValid(t, it) THEN SstNextOnInvalid(t, it)
    ELSE LET blk_iter == BlockIterNext(it.blk_iter)
         IN  IF ~BlockIterIsValid(blk_iter)
             THEN [res |-> "ok", it |-> SstIter(blk_iter, it.blk_idx + 1),
                   reads |-> <<>>]
             ELSE [res |-> "ok", it |-> SstIter(blk_iter, it.blk_idx),
                   reads |-> <<>>]

SstNext(t, it) ==
    IF ~SstIsValid(t, it) THEN SstNextOnInvalid(t, it)
    ELSE LET blk_iter == BlockIterNext(it.blk_iter)
         IN  IF ~BlockIterIsValid(blk_iter)
             THEN IF it.blk_idx + 1 < Len(t.block_meta)
                  THEN [res |-> "ok",
                        it |-> SstIter(BlockCreateAndSeekToFirst(
                                           ReadBlock(t, it.blk_idx + 1).block),
                                       it.blk_idx + 1),
                        reads |-> <<it.blk_idx + 1>>]
                  ELSE [res |-> "ok", it |-> SstIter(blk_iter, it.blk_idx + 1),
                        reads |-> <<>>]
             ELSE [res |-> "ok", it |-> SstIter(blk_iter, it.blk_idx),
                   reads |-> <<>>]

(***************************************************************************)
(* The block component: a Block is encoded, decoded and encoded again;     *)
(* raw bytes are decoded; a BlockIterator walks a built block.             *)
(***************************************************************************)
SeekTargets == Keys \cup {<<>>, <<3>>}

NoGhost == [errored |-> FALSE, dup_err |-> "no"]

MergeOff ==
    /\ mphase = "off" /\ minput = <<>> /\ heap = {} /\ current = None
    /\ mres = "none" /\ emitted = <<>> /\ mg = NoGhost

NoSop ==
    [op |-> "none", target |-> <<>>, res |-> "none", reads |-> <<>>,
     scan |-> None]

SstOff ==
    /\ sphase = "off" /\ sb = SsTableBuilderNew(0) /\ added = <<>>
    /\ file = None /\ table = NoTable /\ bres = "none"
    /\ its = <<>> /\ sop = <<>>

NoBop == [op |-> "none", target |-> <<>>, was_valid |-> FALSE]

BlockOff ==
    /\ bphase = "off" /\ entries = <<>> /\ blk = EmptyBlock /\ wire = None
    /\ dec = NoDecode /\ wire2 = None /\ bit = None /\ bop = NoBop

InitBlock ==
    /\ comp = "block"
    /\ MergeOff
    /\ SstOff
    /\ dec = NoDecode /\ wire2 = None /\ bit = None /\ bop = NoBop
    /\ \/ /\ bphase \in {"built", "iter"}
          /\ entries \in EntrySeqs(MaxBlockEntries)
          /\ blk = BlockOf(NewBlockBuilder(U16), entries)
          /\ wire = None
       \/ /\ bphase = "any"
          /\ entries = <<>>
          /\ blk \in [data : SeqsUpTo(AnyDataBytes, MaxFieldLen),
                      offsets : SeqsUpTo(AnyOffsets, MaxFieldLen)]
          /\ wire = None
       \/ /\ bphase = "raw"
          /\ entries = <<>>
          /\ blk = EmptyBlock
          /\ wire \in {Some(w) : w \in SeqsUpTo(RawBytes, MaxRawLen)}

BlockEncode ==
    /\ comp = "block" /\ bphase \in {"built", "any"} /\ wire = None
    /\ wire' = Some(Encode(blk))
    /\ UNCHANGED <<nonBlock, comp, bphase, entries, blk, dec, wire2, bit, bop>>

BlockDecode ==
    /\ comp = "block" /\ wire # None /\ dec = NoDecode
    /\ dec' = Decode(wire[1])
    /\ UNCHANGED <<nonBlock, comp, bphase, entries, blk, wire, wire2, bit, bop>>

BlockReencode ==
    /\ comp = "block" /\ dec.outcome = "block" /\ wire2 = None
    /\ wire2' = Some(Encode(dec.block))
    /\ UNCHANGED <<nonBlock, comp, bphase, entries, blk, wire, dec, bit, bop>>

BopOf(op, target) ==
    [op |-> op, target |-> target,
     was_valid |-> bit # None /\ BlockIterIsValid(bit[1])]

BlkCreateAndSeekToFirst ==
    /\ comp = "block" /\ bphase = "iter" /\ bit = None
    /\ bit' = Some(BlockCreateAndSeekToFirst(blk))
    /\ bop' = BopOf("create_and_seek_to_first", <<>>)
    /\ UNCHANGED <<nonBlock, comp, bphase, entries, blk, wire, dec, wire2>>

BlkCreateAndSeekToKey ==
    /\ comp = "block" /\ bphase = "iter" /\ bit = None
    /\ \E t \in SeekTargets :
          /\ bit' = Some(BlockCreateAndSeekToKey(blk, t))
          /\ bop' = BopOf("create_and_seek_to_key", t)
    /\ UNCHANGED <<nonBlock, comp, bphase, entries, blk, wire, dec, wire2>>

BlkSeekToFirst ==
    /\ comp = "block" /\ bit # None
    /\ bit' = Some(BlockSeekToFirst(bit[1]))
    /\ bop' = BopOf("seek_to_first", <<>>)
    /\ UNCHANGED <<nonBlock, comp, bphase, entries, blk, wire, dec, wire2>>

BlkSeekToKey ==
    /\ comp = "block" /\ bit # None
    /\ \E t \in SeekTargets :
          /\ bit' = Some(BlockSeekToKey(bit[1], t))
          /\ bop' = BopOf("seek_to_key", t)
    /\ UNCHANGED <<nonBlock, comp, bphase, entries, blk, wire, dec, wire2>>

BlkNext ==
    /\ comp = "block" /\ bit # None
    /\ bit' = Some(BlockIterNext(bit[1]))
    /\ bop' = BopOf("next", <<>>)
    /\ UNCHANGED <<nonBlock, comp, bphase, entries, blk, wire, dec, wire2>>

NextBlock ==
    \/ BlockEncode
    \/ BlockDecode
    \/ BlockReencode
    \/ BlkCreateAndSeekToFirst
    \/ BlkCreateAndSeekToKey
    \/ BlkSeekToFirst
    \/ BlkSeekToKey
    \/ BlkNext

SpecBlock == InitBlock /\ [][NextBlock]_vars

(***************************************************************************)
(* A source of the merge iterator: any StorageIterator.  It holds entries  *)
(* in strictly ascending key order and a cursor; next() either advances or *)
(* fails, and a failed source is left valid where it was or invalid.       *)
(***************************************************************************)
MergeKeys == {<<1>>, <<1, 2>>, <<2>>}

Source(es) == [entries |-> es, pos |-> 1]

SrcIsValid(it) == it.pos <= Len(it.entries)

SrcKey(it) == IF SrcIsValid(it) THEN it.entries[it.pos].key ELSE <<>>

SrcValue(it) == IF SrcIsValid(it) THEN it.entries[it.pos].value ELSE <<>>

SrcNext(it) == [it EXCEPT !.pos = @ + 1]

SrcAfterError(it, stays_valid) ==
    IF stays_valid THEN it ELSE [it EXCEPT !.pos = Len(it.entries) + 1]

\* The sources that may stand at position j of the input vector: each value
\* names its source.
SourcesAt(j) ==
    {Source(es) : es \in
        {es \in SeqsUpTo([key : MergeKeys, value : {<<j>>}], MaxSourceLen) :
            Ascending(es)}}

RECURSIVE VectorsOfLen(_)
VectorsOfLen(k) ==
    IF k = 0 THEN {<<>>}
    ELSE {Append(v, src) : v \in VectorsOfLen(k - 1), src \in SourcesAt(k)}

InputVectors == UNION {VectorsOfLen(k) : k \in 0..MaxSources}

(***************************************************************************)
(* HeapWrapper and its Ord: key ascending, then index ascending, reversed  *)
(* for the max-heap.                                                       *)
(***************************************************************************)
HeapWrapper(i, it) == [pri |-> i, it |-> it]

Reverse(o) == CASE o = "Less" -> "Greater" [] o = "Greater" -> "Less" [] OTHER -> o

KeyCmp(a, b) == IF KeyLess(a, b) THEN "Less" ELSE IF a = b THEN "Equal" ELSE "Greater"

IntCmp(a, b) == IF a < b THEN "Less" ELSE IF a = b THEN "Equal" ELSE "Greater"

Then(o1, o2) == IF o1 = "Equal" THEN o2 ELSE o1

\* A mutation of WrapperCmp: the tie-break on the index is inverted.
WrapperCmpLargerIndexFirst(a, b) ==
    Reverse(Then(KeyCmp(SrcKey(a.it), SrcKey(b.it)), IntCmp(b.pri, a.pri)))

\* A mutation of WrapperCmp: the ordering is not reversed.
WrapperCmpNotReversed(a, b) ==
    Then(KeyCmp(SrcKey(a.it), SrcKey(b.it)), IntCmp(a.pri, b.pri))

WrapperCmp(a, b) ==
    Reverse(Then(KeyCmp(SrcKey(a.it), SrcKey(b.it)), IntCmp(a.pri, b.pri)))

\* BinaryHeap::peek / pop: the greatest element under Ord.
HeapTop(h) == CHOOSE w \in h : \A v \in h : WrapperCmp(w, v) # "Less"

HeapPop(h) == IF h = {} THEN None ELSE Some(HeapTop(h))

HeapAfterPop(h) == IF h = {} THEN h ELSE h \ {HeapTop(h)}

(***************************************************************************)
(* MergeIterator.                                                          *)
(***************************************************************************)
RECURSIVE CreateHeapKeepsInvalid(_, _, _)
\* A mutation of CreateHeap: invalid inputs are pushed as well.
CreateHeapKeepsInvalid(iters, j, i) ==
    IF j > Len(iters) THEN {}
    ELSE {HeapWrapper(i, iters[j])} \cup CreateHeapKeepsInvalid(iters, j + 1, i + 1)

RECURSIVE CreateHeap(_, _, _)
\* The loop of create: the sources from position j on, the next index i.
CreateHeap(iters, j, i) ==
    IF j > Len(iters) THEN {}
    ELSE IF ~SrcIsValid(iters[j]) THEN CreateHeap(iters, j + 1, i)
    ELSE {HeapWrapper(i, iters[j])} \cup CreateHeap(iters, j + 1, i + 1)

MergeCreate(iters) ==
    LET h == CreateHeap(iters, 1, 0)
    IN  [iters |-> HeapAfterPop(h), current |-> HeapPop(h)]

MergeKey(m) == IF m.current # None THEN SrcKey(m.current[1].it) ELSE <<>>

MergeValue(m) == IF m.current # None THEN SrcValue(m.current[1].it) ELSE <<>>

MergeIsValid(m) == m.current # None /\ SrcIsValid(m.current[1].it)

\* A mutation of SkipDuplicates: only the first heap top at the current key
\* is advanced.
SkipDuplicatesOnlyTop(h, key, fail) ==
    IF h = {} THEN [iters |-> h, err |-> FALSE]
    ELSE LET top == HeapTop(h)
         IN  IF SrcKey(top.it) = key
             THEN IF top.pri = fail
                  THEN [iters |-> h \ {top}, err |-> TRUE]
                  ELSE LET it2 == SrcNext(top.it)
                       IN  IF ~SrcIsValid(it2)
                           THEN [iters |-> h \ {top}, err |-> FALSE]
                           ELSE [iters |-> (h \ {top}) \cup {HeapWrapper(top.pri, it2)},
                                 err |-> FALSE]
             ELSE [iters |-> h, err |-> FALSE]

RECURSIVE SkipDuplicates(_, _, _)
\* The while-let loop of next: advance every heap top whose key equals the
\* current key.  fail is the index of the source whose next() fails (-1:
\* none).  Yields the heap and whether an advance failed.
SkipDuplicates(h, key, fail) ==
    IF h = {} THEN [iters |-> h, err |-> FALSE]
    ELSE LET top == HeapTop(h)
         IN  IF SrcKey(top.it) = key
             THEN IF top.pri = fail
                  THEN [iters |-> h \ {top}, err |-> TRUE]
                  ELSE LET it2 == SrcNext(top.it)
                       IN  IF ~SrcIsValid(it2)
                           THEN SkipDuplicates(h \ {top}, key, fail)
                           ELSE SkipDuplicates(
                                    (h \ {top}) \cup {HeapWrapper(top.pri, it2)},
                                    key, fail)
             ELSE [iters |-> h, err |-> FALSE]

\* A mutation of OnDuplicateError: current is left in place.
OnDuplicateErrorKeepsCurrent(m, h) ==
    [iters |-> h, current |-> m.current, res |-> "source error"]

\* next, lines 120-124: the failed top is popped, current is cleared, the
\* error is returned.
OnDuplicateError(m, h) ==
    [iters |-> h, current |-> None, res |-> "source error"]

\* next, lines 111-113.
OnInvalid(m) ==
    [iters |-> m.iters, current |-> m.current, res |-> "iterator has errored"]

\* A mutation of MergeNext: the advanced current is pushed back without the
\* is_valid check.
MergeNextKeepsExhausted(m, fail, stays_valid) ==
    IF ~MergeIsValid(m) THEN OnInvalid(m)
    ELSE LET cur == m.current[1]
             skipped == SkipDuplicates(m.iters, SrcKey(cur.it), fail)
         IN  IF skipped.err THEN OnDuplicateError(m, skipped.iters)
             ELSE IF cur.pri = fail
             THEN [iters |-> skipped.iters,
                   current |-> Some(HeapWrapper(cur.pri,
                                        SrcAfterError(cur.it, stays_valid))),
                   res |-> "source error"]
             ELSE LET h2 == skipped.iters \cup {HeapWrapper(cur.pri, SrcNext(cur.it))}
                  IN  [iters |-> HeapAfterPop(h2), current |-> HeapPop(h2),
                       res |-> "ok"]

MergeNext(m, fail, stays_valid) ==
    IF ~MergeIsValid(m) THEN OnInvalid(m)
    ELSE LET cur == m.current[1]
             skipped == SkipDuplicates(m.iters, SrcKey(cur.it), fail)
         IN  IF skipped.err THEN OnDuplicateError(m, skipped.iters)
             ELSE IF cur.pri = fail
             THEN [iters |-> skipped.iters,
                   current |-> Some(HeapWrapper(cur.pri,
                                        SrcAfterError(cur.it, stays_valid))),
                   res |-> "source error"]
             ELSE LET it2 == SrcNext(cur.it)
                      h2 == IF SrcIsValid(it2)
                            THEN skipped.iters \cup {HeapWrapper(cur.pri, it2)}
                            ELSE skipped.iters
                  IN  [iters |-> HeapAfterPop(h2), current |-> HeapPop(h2),
                       res |-> "ok"]

(***************************************************************************)
(* The merge component.                                                    *)
(***************************************************************************)
M == [iters |-> heap, current |-> current]

InitMerge ==
    /\ comp = "merge"
    /\ BlockOff
    /\ SstOff
    /\ mphase = "input"
    /\ minput \in InputVectors
    /\ heap = {} /\ current = None /\ mres = "none" /\ emitted = <<>>
    /\ mg = NoGhost

\* The indices of the sources whose next() a call of MergeIterator::next may
\* reach: the current one and those at the current key.  Each of them may be
\* the one that fails.
CurrentIndex(m) == IF MergeIsValid(m) THEN {m.current[1].pri} ELSE {}

Called(m) ==
    CurrentIndex(m)
    \cup {w.pri : w \in {w \in m.iters : MergeIsValid(m) /\ SrcKey(w.it) = MergeKey(m)}}

\* Whether the failing source is one advanced by the duplicate-skipping loop.
DuplicateFails(m, fail) ==
    MergeIsValid(m) /\ SkipDuplicates(m.iters, MergeKey(m), fail).err

Read(m) == [key |-> MergeKey(m), value |-> MergeValue(m)]

MergeCreateCall ==
    /\ comp = "merge" /\ mphase = "input"
    /\ LET m == MergeCreate(minput)
       IN  /\ heap' = m.iters
           /\ current' = m.current
           /\ emitted' = IF MergeIsValid(m) THEN <<Read(m)>> ELSE <<>>
    /\ mphase' = "ready"
    /\ UNCHANGED <<nonMerge, comp, minput, mres, mg>>

MergeNextCall ==
    /\ comp = "merge" /\ mphase = "ready"
    /\ \E fail \in {-1} \cup Called(M) :
       \E stays_valid \in IF fail \in CurrentIndex(M) THEN BOOLEAN ELSE {FALSE} :
          LET r == MergeNext(M, fail, stays_valid)
              m == [iters |-> r.iters, current |-> r.current]
          IN  /\ heap' = r.iters
              /\ current' = r.current
              /\ mres' = r.res
              /\ emitted' = IF r.res = "ok" /\ MergeIsValid(m)
                            THEN Append(emitted, Read(m)) ELSE emitted
              /\ mg' = [errored |-> mg.errored \/ r.res = "source error",
                        dup_err |-> IF DuplicateFails(M, fail) THEN "now"
                                    ELSE IF mg.dup_err = "no" THEN "no" ELSE "before"]
    /\ UNCHANGED <<nonMerge, comp, mphase, minput>>

NextMerge ==
    \/ MergeCreateCall
    \/ MergeNextCall

SpecMerge == InitMerge /\ [][NextMerge]_vars

(***************************************************************************)
(* The SST component: entries are added in strictly ascending key order,   *)
(* the table is built, and iterators seek and scan it.                     *)
(***************************************************************************)
\* The keys added to a table; seeks also aim at the other keys of Keys.
SstKeys == {<<1>>, <<1, 2>>, <<2>>, <<2, 2>>}

InitSst ==
    /\ comp = "sst"
    /\ BlockOff
    /\ MergeOff
    /\ sphase = "building"
    /\ sb \in {SsTableBuilderNew(bs) : bs \in BlockSizes}
    /\ added = <<>> /\ file = None /\ table = NoTable /\ bres = "none"
    /\ its = [i \in {"a"} |-> None]
    /\ sop = [i \in {"a"} |-> NoSop]

SstAddCall ==
    /\ comp = "sst" /\ sphase = "building" /\ Len(added) < MaxSstEntries
    /\ \E key \in SstKeys, value \in ValueSet :
          /\ IF added = <<>> THEN TRUE ELSE KeyLess(added[Len(added)].key, key)
          /\ sb' = SsTableBuilderAdd(sb, key, value)
          /\ added' = Append(added, [key |-> key, value |-> value])
    /\ UNCHANGED <<nonSst, comp, sphase, file, table, bres, its, sop>>

SstBuildCall ==
    /\ comp = "sst" /\ sphase = "building"
    /\ \E io_ok \in BOOLEAN, block_cache \in {None, Some({})} :
          LET r == SsTableBuild(sb, block_cache, io_ok)
          IN  /\ bres' = r.outcome
              /\ file' = r.file
              /\ table' = r.table
              /\ sphase' = IF r.outcome = "sstable" THEN "built" ELSE "failed"
    /\ UNCHANGED <<nonSst, comp, sb, added, its, sop>>

SstRead(it) == [key |-> SstKey(it), value |-> SstValue(it)]

\* The scan a seek to the first entry starts.
ScanStart(r) ==
    IF r.res # "ok" THEN None
    ELSE IF SstIsValid(table, r.it) THEN Some(<<SstRead(r.it)>>) ELSE Some(<<>>)

\* The scan after a call of next.
ScanNext(scan, r) ==
    IF scan # None /\ r.res = "ok" /\ SstIsValid(table, r.it)
    THEN Some(Append(scan[1], SstRead(r.it)))
    ELSE scan

\* What a call leaves in sop: the operation, its target, its result, the
\* block indices it read and the scan it continues.
SopOf(op, target, r, scan) ==
    [op |-> op, target |-> target, res |-> r.res, reads |-> r.reads,
     scan |-> scan]

SstIterCreateAndSeekToFirst ==
    /\ comp = "sst" /\ sphase = "built"
    /\ \E i \in DOMAIN its :
       /\ its[i] = None
       /\ LET r == SstCreateAndSeekToFirst(table)
          IN  /\ its' = [its EXCEPT ![i] = IF r.res = "ok" THEN Some(r.it) ELSE None]
              /\ sop' = [sop EXCEPT ![i] = SopOf("create_and_seek_to_first", <<>>,
                                                 r, ScanStart(r))]
              /\ table' = CacheAfter(table, r.reads)
    /\ UNCHANGED <<nonSst, comp, sphase, sb, added, file, bres>>

SstIterCreateAndSeekToKey ==
    /\ comp = "sst" /\ sphase = "built"
    /\ \E i \in DOMAIN its :
       /\ its[i] = None
       /\ \E q \in SeekTargets :
             LET r == SstCreateAndSeekToKey(table, q)
             IN  /\ its' = [its EXCEPT ![i] = IF r.res = "ok" THEN Some(r.it) ELSE None]
                 /\ sop' = [sop EXCEPT ![i] = SopOf("create_and_seek_to_key", q,
                                                    r, None)]
                 /\ table' = CacheAfter(table, r.reads)
    /\ UNCHANGED <<nonSst, comp, sphase, sb, added, file, bres>>

SstIterSeekToFirst ==
    /\ comp = "sst" /\ sphase = "built"
    /\ \E i \in DOMAIN its :
       /\ its[i] # None
       /\ LET r == SstSeekToFirst(table, its[i][1])
          IN  /\ its' = [its EXCEPT ![i] = Some(r.it)]
              /\ sop' = [sop EXCEPT ![i] = SopOf("seek_to_first", <<>>, r,
                                                 ScanStart(r))]
              /\ table' = CacheAfter(table, r.reads)
    /\ UNCHANGED <<nonSst, comp, sphase, sb, added, file, bres>>

SstIterSeekToKey ==
    /\ comp = "sst" /\ sphase = "built"
    /\ \E i \in DOMAIN its :
       /\ its[i] # None
       /\ \E q \in SeekTargets :
             LET r == SstSeekToKey(table, its[i][1], q)
             IN  /\ its' = [its EXCEPT ![i] = Some(r.it)]
                 /\ sop' = [sop EXCEPT ![i] = SopOf("seek_to_key", q, r, None)]
                 /\ table' = CacheAfter(table, r.reads)
    /\ UNCHANGED <<nonSst, comp, sphase, sb, added, file, bres>>

\* A mutation of SstIterNext: the cursor is kept with the table, so that
\* next() on one iterator moves every iterator of the table.
SstIterNextMovesAll ==
    /\ comp = "sst" /\ sphase = "built"
    /\ \E i \in DOMAIN its :
       /\ its[i] # None
       /\ LET r == SstNext(table, its[i][1])
          IN  /\ its' = [j \in DOMAIN its |->
                            IF its[j] = None THEN None ELSE Some(r.it)]
              /\ sop' = [sop EXCEPT ![i] = SopOf("next", <<>>, r,
                                                 ScanNext(sop[i].scan, r))]
              /\ table' = CacheAfter(table, r.reads)
    /\ UNCHANGED <<nonSst, comp, sphase, sb, added, file, bres>>

SstIterNext ==
    /\ comp = "sst" /\ sphase = "built"
    /\ \E i \in DOMAIN its :
       /\ its[i] # None
       /\ LET r == SstNext(table, its[i][1])
          IN  /\ its' = [its EXCEPT ![i] = Some(r.it)]
              /\ sop' = [sop EXCEPT ![i] = SopOf("next", <<>>, r,
                                                 ScanNext(sop[i].scan, r))]
              /\ table' = CacheAfter(table, r.reads)
    /\ UNCHANGED <<nonSst, comp, sphase, sb, added, file, bres>>

NextSst ==
    \/ SstAddCall
    \/ SstBuildCall
    \/ SstIterCreateAndSeekToFirst
    \/ SstIterCreateAndSeekToKey
    \/ SstIterSeekToFirst
    \/ SstIterSeekToKey
    \/ SstIterNext

SpecSst == InitSst /\ [][NextSst]_vars

RECURSIVE AddAll(_, _)
\* The builder after add was called with each of the entries es in turn.
AddAll(b, es) ==
    IF es = <<>> THEN b
    ELSE AddAll(SsTableBuilderAdd(b, es[1].key, es[1].value), Tail(es))

\* The entries every table shared by two iterators starts with.
SharedPrefix ==
    <<[key |-> <<1>>, value |-> <<>>], [key |-> <<2>>, value |-> <<9>>]>>

\* The block sizes of a shared table: one entry in each block, or the two
\* entries of SharedPrefix in one block.
SharedBlockSizes == {8, 18}

\* Two iterators, a and b, over one table: the builder holds SharedPrefix,
\* more entries may be added, and after build both iterators are created and
\* used in any interleaving.
InitSstShared ==
    /\ comp = "sst"
    /\ BlockOff
    /\ MergeOff
    /\ sphase = "building"
    /\ sb \in {AddAll(SsTableBuilderNew(bs), SharedPrefix) : bs \in SharedBlockSizes}
    /\ added = SharedPrefix /\ file = None /\ table = NoTable /\ bres = "none"
    /\ its = [i \in {"a", "b"} |-> None]
    /\ sop = [i \in {"a", "b"} |-> NoSop]

SpecSstShared == InitSstShared /\ [][NextSst]_vars

Init == InitBlock \/ InitMerge \/ InitSst

Next == NextBlock \/ NextMerge \/ NextSst

(***************************************************************************)
(* Claims about the block format.                                          *)
(***************************************************************************)

\* C5: decoding the encoding of any Block gives back its data bytes and its
\* offsets, and encoding the decoded block gives the first encoding again.
C5_EncodeDecodeRoundTrip ==
    (comp = "block" /\ bphase \in {"built", "any"}) =>
        /\ dec # NoDecode =>
              /\ dec.outcome = "block"
              /\ dec.block.data = blk.data
              /\ dec.block.offsets = blk.offsets
        /\ wire2 # None => wire2 = wire

C5_Witness ==
    /\ comp = "block" /\ bphase = "built" /\ Len(entries) >= 2
    /\ wire2 # None /\ dec.block.offsets = blk.offsets /\ Len(blk.offsets) >= 2

\* The inputs the format section rejects: fewer than 2 bytes, a count n with
\* 2 + 2n > len, or an offset at or past the end of the data section.
Malformed(bytes) ==
    \/ Len(bytes) < 2
    \/ 2 + 2 * GetU16(bytes, Len(bytes) - 2) > Len(bytes)
    \/ LET n == GetU16(bytes, Len(bytes) - 2)
           dlen == Len(bytes) - 2 - 2 * n
       IN  \E i \in 0..(n - 1) : GetU16(bytes, dlen + 2 * i) >= dlen

\* C6: Block::decode fails with a corruption error, returning no block, on
\* every malformed input.
C6_DecodeRejectsMalformed ==
    (comp = "block" /\ dec # NoDecode /\ Malformed(wire[1])) =>
        dec.outcome = "corruption"

\* C7: after create_and_seek_to_key or seek_to_key with a target, the cursor
\* is at the smallest index whose key is >= target, key() and value() are
\* that entry's, and the iterator is invalid exactly when there is no such
\* index.
C7_SeekToKeyLowerBound ==
    (comp = "block" /\ bit # None
        /\ bop.op \in {"create_and_seek_to_key", "seek_to_key"}) =>
        LET it == bit[1]
            ge == {i \in 1..Len(entries) : KeyLeq(bop.target, entries[i].key)}
        IN  IF ge = {} THEN ~BlockIterIsValid(it)
            ELSE LET m == CHOOSE i \in ge : \A j \in ge : i <= j
                 IN  /\ BlockIterIsValid(it)
                     /\ it.idx = m - 1
                     /\ BlockIterKey(it) = entries[m].key
                     /\ BlockIterValue(it) = entries[m].value

C7_Witness ==
    /\ comp = "block" /\ bit # None /\ bop.op = "seek_to_key"
    /\ BlockIterIsValid(bit[1]) /\ bit[1].idx = 1
    /\ bop.target # bit[1].key /\ Len(entries) = 3

\* C20: an invalid BlockIterator stays invalid under next(): when is_valid()
\* was false before a call of next(), whether next() had walked past the
\* last entry or a seek had found no key >= its target, is_valid() is false
\* after it.
C20_InvalidStaysInvalid ==
    (comp = "block" /\ bit # None /\ bop.op = "next" /\ ~bop.was_valid) =>
        ~BlockIterIsValid(bit[1])

(***************************************************************************)
(* Claims about the merge iterator.                                        *)
(***************************************************************************)
InputKeys(v) == {v[j].entries[i].key : <<j, i>> \in
                    {p \in (1..Len(v)) \X (1..MaxSourceLen + 1) :
                        p[2] <= Len(v[p[1]].entries)}}

HasKey(src, k) == \E i \in 1..Len(src.entries) : src.entries[i].key = k

\* The value of key k in the source of smallest position that contains k.
WinningValue(v, k) ==
    LET j == CHOOSE j \in 1..Len(v) :
                 HasKey(v[j], k) /\ \A h \in 1..(j - 1) : ~HasKey(v[h], k)
        i == CHOOSE i \in 1..Len(v[j].entries) : v[j].entries[i].key = k
    IN  v[j].entries[i].value

RECURSIVE SortedUnion(_, _)
SortedUnion(v, ks) ==
    IF ks = {} THEN <<>>
    ELSE LET k == CHOOSE k \in ks : \A o \in ks : KeyLeq(k, o)
         IN  <<[key |-> k, value |-> WinningValue(v, k)]>>
             \o SortedUnion(v, ks \ {k})

IsPrefix(a, b) == Len(a) <= Len(b) /\ SubSeq(b, 1, Len(a)) = a

\* C1: over error-free sources, reading key()/value() and calling next()
\* until is_valid() is false emits the sorted union of the sources' keys,
\* each once, with the value of the source of smallest position.
C1_MergeEmitsSortedUnion ==
    (comp = "merge" /\ mphase = "ready" /\ ~mg.errored) =>
        LET expected == SortedUnion(minput, InputKeys(minput))
        IN  /\ IsPrefix(emitted, expected)
            /\ MergeIsValid(M) => emitted # <<>>
            /\ ~MergeIsValid(M) => emitted = expected

C1_Witness ==
    /\ comp = "merge" /\ mphase = "ready" /\ ~mg.errored /\ ~MergeIsValid(M)
    /\ Len(minput) = 3 /\ ~SrcIsValid(minput[1])
    /\ Len(emitted) = 3
    /\ \E k \in MergeKeys : HasKey(minput[2], k) /\ HasKey(minput[3], k)

\* C2: whenever next() returns Ok and the iterator is still valid, the new
\* key() is strictly greater than the key() before the call.
C2_KeysStrictlyAscending ==
    [][(comp = "merge" /\ mphase = "ready" /\ mres' = "ok"
            /\ MergeIsValid(M)')
        => KeyLess(MergeKey(M), MergeKey(M)')]_vars

C2_Witness ==
    /\ comp = "merge" /\ mphase = "ready" /\ mres = "ok" /\ MergeIsValid(M)
    /\ Len(emitted) = 3 /\ heap # {}

\* C8: when advancing a non-current source fails during duplicate skipping,
\* next() returns that error and the merge iterator is invalid afterwards:
\* is_valid() is false, key() and value() are empty, and every later next()
\* fails with "iterator has errored".
C8_DuplicateErrorInvalidates ==
    (comp = "merge" /\ mg.dup_err # "no") =>
        /\ ~MergeIsValid(M)
        /\ MergeKey(M) = <<>>
        /\ MergeValue(M) = <<>>
        /\ mg.dup_err = "now" => mres = "source error"
        /\ mg.dup_err = "before" => mres = "iterator has errored"

C8_Witness ==
    /\ comp = "merge" /\ mg.dup_err = "before" /\ heap # {}
    /\ mres = "iterator has errored"

\* C21: every error next() returns leaves the merge iterator invalid: once a
\* source's next() has failed inside next(), be it a skipped duplicate's or
\* the current source's, is_valid() is false, and every later next() fails,
\* so that no further entry is emitted.
C21_EveryErrorInvalidates ==
    (comp = "merge" /\ mphase = "ready" /\ mg.errored) =>
        /\ ~MergeIsValid(M)
        /\ mres \in {"source error", "iterator has errored"}

\* The wrappers a merge iterator holds: the heap's and current.
Held(m) == m.iters \cup (IF m.current = None THEN {} ELSE {m.current[1]})

\* The position in the input vector of the source a wrapper holds: the
\* entries of the source at position j carry the value <<j>>.
InputIndex(w) == w.it.entries[1].value[1]

\* The smallest head key of the valid inputs.
SmallestHead(v) ==
    LET heads == {SrcKey(v[j]) : j \in {j \in 1..Len(v) : SrcIsValid(v[j])}}
    IN  CHOOSE k \in heads : \A o \in heads : KeyLeq(k, o)

\* C16: create skips the invalid inputs and the priorities of the others
\* follow their order in the input vector; when no input is valid the merge
\* iterator is invalid from creation with empty key() and value(); otherwise
\* it is valid, on the smallest key, at the entry of the earliest input that
\* holds that key, however many invalid inputs precede it.
C16_CreateSkipsInvalid ==
    (comp = "merge" /\ mphase = "ready" /\ mres = "none") =>
        LET valid == {j \in 1..Len(minput) : SrcIsValid(minput[j])}
        IN  /\ \A w \in Held(M) : SrcIsValid(w.it)
            /\ {InputIndex(w) : w \in Held(M)} = valid
            /\ \A w \in Held(M) : w.it = minput[InputIndex(w)]
            /\ \A w1, w2 \in Held(M) :
                  InputIndex(w1) < InputIndex(w2) <=> w1.pri < w2.pri
            /\ IF valid = {}
               THEN /\ ~MergeIsValid(M)
                    /\ MergeKey(M) = <<>>
                    /\ MergeValue(M) = <<>>
               ELSE LET k == SmallestHead(minput)
                        j == CHOOSE j \in valid :
                               /\ HasKey(minput[j], k)
                               /\ \A h \in valid : HasKey(minput[h], k) => j <= h
                    IN  /\ MergeIsValid(M)
                        /\ MergeKey(M) = k
                        /\ MergeValue(M) = <<j>>
                        /\ InputIndex(current[1]) = j

\* The first input is invalid; the second and the third both start with the
\* smallest key, and the second one's entry is the current one.
C16_Witness ==
    /\ comp = "merge" /\ mphase = "ready" /\ mres = "none"
    /\ Len(minput) = 3 /\ ~SrcIsValid(minput[1])
    /\ SrcIsValid(minput[2]) /\ SrcIsValid(minput[3])
    /\ SrcKey(minput[2]) = SrcKey(minput[3])
    /\ MergeValue(M) = <<2>> /\ current[1].pri = 0

\* C17: a next() that returns Ok advances by one entry each held source that
\* is at the current key (the current one and the others; a source advanced
\* past its last entry is dropped), leaves every other held source at its
\* position, takes up no other source, and leaves no held source at the key
\* that was current.
C17_NextAdvancesSourcesAtCurrentKey ==
    [][(comp = "merge" /\ mphase = "ready" /\ mres' = "ok" /\ M' # M) =>
        LET k == MergeKey(M)
        IN  /\ \A w \in Held(M) :
                  IF SrcKey(w.it) = k
                  THEN IF w.it.pos < Len(w.it.entries)
                       THEN HeapWrapper(w.pri, SrcNext(w.it)) \in Held(M')
                       ELSE \A v \in Held(M') : v.pri # w.pri
                  ELSE w \in Held(M')
            /\ \A v \in Held(M') : \E w \in Held(M) : w.pri = v.pri
            /\ \A v \in Held(M') : SrcKey(v.it) # k]_vars

\* Three sources were at the first key; one next() has advanced all three.
C17_Witness ==
    /\ comp = "merge" /\ mphase = "ready" /\ mres = "ok"
    /\ Len(minput) = 3 /\ Len(emitted) = 2
    /\ \A j \in 1..3 : SrcIsValid(minput[j]) /\ SrcKey(minput[j]) = emitted[1].key
    /\ \E w \in Held(M) : w.it.pos = 2

\* C19: between calls, in runs without a source error, every source in the
\* heap is valid, and current, when present, is valid and is the least held
\* wrapper by (key, index): each heap entry has a greater key, or the same
\* key and a larger index.
C19_CurrentIsMinimum ==
    (comp = "merge" /\ mphase = "ready" /\ ~mg.errored) =>
        /\ \A w \in heap : SrcIsValid(w.it)
        /\ current # None =>
              /\ SrcIsValid(current[1].it)
              /\ \A w \in heap :
                    \/ KeyLess(SrcKey(current[1].it), SrcKey(w.it))
                    \/ /\ SrcKey(current[1].it) = SrcKey(w.it)
                       /\ w.pri > current[1].pri

\* After a next(), a heap entry has the key of current and a larger index.
C19_Witness ==
    /\ comp = "merge" /\ mphase = "ready" /\ ~mg.errored /\ mres = "ok"
    /\ current # None
    /\ \E w \in heap : SrcKey(w.it) = SrcKey(current[1].it) /\ w.pri > current[1].pri
    /\ \E w \in heap : KeyLess(SrcKey(current[1].it), SrcKey(w.it))

(***************************************************************************)
(* Claims about the SST builder and iterator.                              *)
(***************************************************************************)
\* The added entries whose key is >= q, by position.
AtOrAfter(q) == {i \in 1..Len(added) : KeyLeq(q, added[i].key)}

\* C3: for an SST built from strictly ascending keys, with any split into
\* blocks, seeking to the first entry and calling next() until invalid emits
\* exactly the added entries in order.
C3_FullScanEmitsAdded ==
    (comp = "sst" /\ sphase = "built") =>
        \A i \in DOMAIN its :
            (its[i] # None /\ sop[i].scan # None) =>
                /\ IsPrefix(sop[i].scan[1], added)
                /\ sop[i].res \in {"ok", NotValidError}
                /\ IF SstIsValid(table, its[i][1])
                   THEN /\ sop[i].scan[1] # <<>>
                        /\ sop[i].scan[1][Len(sop[i].scan[1])] = SstRead(its[i][1])
                   ELSE sop[i].scan[1] = added

C3_Witness ==
    /\ comp = "sst" /\ sphase = "built" /\ its["a"] # None
    /\ sop["a"].scan = Some(added) /\ ~SstIsValid(table, its["a"][1])
    /\ Len(added) = 3 /\ Len(table.block_meta) = 2

\* C4: seek_to_key(q), from any cursor position, returns Ok and leaves the
\* iterator invalid exactly when q is greater than the last key of the SST,
\* and otherwise at the smallest key of the SST that is >= q.
C4_SeekToKeyLowerBound ==
    (comp = "sst" /\ sphase = "built") =>
        \A i \in DOMAIN its :
            (its[i] # None /\ sop[i].op = "seek_to_key") =>
                LET it == its[i][1]
                    ge == AtOrAfter(sop[i].target)
                IN  /\ sop[i].res = "ok"
                    /\ SstIsValid(table, it) <=> ~KeyLess(table.last_key, sop[i].target)
                    /\ IF ge = {} THEN ~SstIsValid(table, it)
                       ELSE LET m == CHOOSE m \in ge : \A j \in ge : m <= j
                            IN  /\ SstIsValid(table, it)
                                /\ SstRead(it) = added[m]

\* A seek into the gap between two blocks landed on the first key of the
\* block after the gap.
C4_Witness ==
    /\ comp = "sst" /\ sphase = "built" /\ its["a"] # None
    /\ sop["a"].op = "seek_to_key" /\ SstIsValid(table, its["a"][1])
    /\ \E b \in 1..(Len(table.block_meta) - 1) :
          /\ KeyLess(table.block_meta[b].last_key, sop["a"].target)
          /\ KeyLess(sop["a"].target, table.block_meta[b + 1].first_key)
          /\ SstKey(its["a"][1]) = table.block_meta[b + 1].first_key
          /\ its["a"][1].blk_idx = b

\* C9: next() on an invalid SsTableIterator or MergeIterator returns an
\* error (the merge iterator's is "iterator has errored") and changes
\* nothing: cursor, block index, heap and current stay as they were.
C9_NextOnInvalidChangesNothing ==
    [][/\ \A i \in DOMAIN its :
             (/\ comp = "sst" /\ sphase = "built" /\ its[i] # None
              /\ sop'[i].op = "next"
              /\ (its'[i] # its[i] \/ sop'[i] # sop[i])
              /\ ~SstIsValid(table, its[i][1]))
             => (sop'[i].res = NotValidError /\ its'[i] = its[i])
       /\ (comp = "merge" /\ mphase = "ready" /\ ~MergeIsValid(M))
             => (mres' = "iterator has errored" /\ heap' = heap
                 /\ current' = current)]_vars

C9_Witness ==
    /\ comp = "sst" /\ sphase = "built" /\ its["a"] # None
    /\ sop["a"].op = "next" /\ sop["a"].res = NotValidError
    /\ its["a"][1].blk_idx = Len(table.block_meta)

\* C10: build either returns an SsTable or returns the I/O error of file
\* creation, for every builder (the one nothing was added to included), and
\* a call that returns no SsTable leaves no file written.
C10_BuildFailsOnlyWithIoError ==
    (comp = "sst" /\ sphase \in {"built", "failed"}) =>
        /\ bres \in {"sstable", "io error"}
        /\ bres # "sstable" => file = None

RECURSIVE Split(_, _, _)
\* The blocks the size rule makes of the entries es, cur being the entries of
\* the open block: an entry joins the open block when that block is empty or
\* its encoding with the entry stays within block_size.
Split(es, cur, block_size) ==
    IF es = <<>> THEN (IF cur = <<>> THEN <<>> ELSE <<cur>>)
    ELSE IF cur = <<>>
            \/ Len(Encode(BlockOf(NewBlockBuilder(block_size), Append(cur, es[1]))))
                  <= block_size
         THEN Split(Tail(es), Append(cur, es[1]), block_size)
         ELSE <<cur>> \o Split(Tail(es), <<es[1]>>, block_size)

\* The entries of each block of the table, from the added entries alone.
ExpectedBlocks == Split(added, <<>>, sb.block_size)

\* The encoding of block i (1-based) of the table, from the added entries.
ExpectedEncoding(i) ==
    Encode(BlockOf(NewBlockBuilder(sb.block_size), ExpectedBlocks[i]))

RECURSIVE ExpectedLength(_)
\* The total length of the encodings of the first n blocks.
ExpectedLength(n) ==
    IF n = 0 THEN 0 ELSE ExpectedLength(n - 1) + Len(ExpectedEncoding(n))

\* The keys stored in block i (1-based) of the file, in order.
StoredKeys(i) ==
    LET block == ReadBlock(table, i - 1).block
    IN  [j \in 1..Len(block.offsets) |-> KeyAtOffset(block, block.offsets[j])]

\* C11: after a non-empty ascending sequence of adds, build (when the file
\* is created) returns an SsTable with first_key the first key added,
\* last_key the last key added, these being meta.first.first_key and
\* meta.last.last_key; block_meta is the builder's meta followed by the meta
\* of the block open at the call; block_meta_offset is the total length of
\* the encoded blocks and is the big-endian value of the file's last 4 bytes.
C11_BuildReturnsTable ==
    (comp = "sst" /\ sphase \in {"built", "failed"} /\ added # <<>>) =>
        IF sphase = "failed" THEN bres = "io error"
        ELSE LET n == Len(table.block_meta)
                 flen == Len(table.file)
             IN  /\ bres = "sstable"
                 /\ file = Some(table.file)
                 /\ n = Len(ExpectedBlocks)
                 /\ table.first_key = added[1].key
                 /\ table.last_key = added[Len(added)].key
                 /\ table.first_key = table.block_meta[1].first_key
                 /\ table.last_key = table.block_meta[n].last_key
                 /\ n = Len(sb.meta) + 1
                 /\ SubSeq(table.block_meta, 1, n - 1) = sb.meta
                 /\ table.block_meta[n]
                       = BlockMeta(Len(sb.data), ExpectedBlocks[n][1].key,
                                   added[Len(added)].key)
                 /\ table.block_meta_offset = ExpectedLength(n)
                 /\ SubSeq(table.file, flen - 3, flen)
                       = PutU32(table.block_meta_offset)
                 /\ flen = table.block_meta_offset
                            + Len(EncodeBlockMeta(table.block_meta)) + 4

\* Two blocks were sealed by add and the third was open when build was called.
C11_Witness ==
    /\ comp = "sst" /\ sphase = "built" /\ Len(added) = 3
    /\ Len(sb.meta) = 2 /\ Len(table.block_meta) = 3
    /\ table.block_meta_offset > 0

\* C13: after ascending adds and build, every key stored in block i lies
\* between meta[i].first_key and meta[i].last_key inclusive, these are the
\* first and the last key placed in block i, and meta[i].last_key is
\* strictly less than meta[i+1].first_key.
C13_MetaKeyRanges ==
    (comp = "sst" /\ sphase = "built") =>
        LET meta == table.block_meta
        IN  /\ Len(meta) = Len(ExpectedBlocks)
            /\ \A i \in 1..Len(meta) :
                  LET stored == StoredKeys(i)
                      placed == ExpectedBlocks[i]
                  IN  /\ stored = [j \in 1..Len(placed) |-> placed[j].key]
                      /\ \A j \in 1..Len(stored) :
                            /\ KeyLeq(meta[i].first_key, stored[j])
                            /\ KeyLeq(stored[j], meta[i].last_key)
                      /\ meta[i].first_key = placed[1].key
                      /\ meta[i].last_key = placed[Len(placed)].key
            /\ \A i \in 1..(Len(meta) - 1) :
                  KeyLess(meta[i].last_key, meta[i + 1].first_key)

\* A block of two entries is followed by a block of one.
C13_Witness ==
    /\ comp = "sst" /\ sphase = "built" /\ Len(table.block_meta) = 2
    /\ Len(StoredKeys(1)) = 2 /\ Len(StoredKeys(2)) = 1
    /\ table.block_meta[1].first_key # table.block_meta[1].last_key

\* C14: after adds and build, meta[0].offset = 0, each next offset is the
\* previous offset plus the encoded length of the previous block, meta_offset
\* is the last offset plus the encoded length of the last block, and the
\* bytes of the file from one offset to the next are the encoding of that
\* block.
C14_BlocksContiguous ==
    (comp = "sst" /\ sphase = "built") =>
        LET meta == table.block_meta
            n == Len(meta)
            end(i) == IF i < n THEN meta[i + 1].offset ELSE table.block_meta_offset
        IN  /\ n = Len(ExpectedBlocks)
            /\ meta[1].offset = 0
            /\ \A i \in 1..n :
                  /\ end(i) = meta[i].offset + Len(ExpectedEncoding(i))
                  /\ Slice(table.file, meta[i].offset, end(i)) = ExpectedEncoding(i)

\* Three blocks of different lengths.
C14_Witness ==
    /\ comp = "sst" /\ sphase = "built" /\ Len(table.block_meta) = 3
    /\ table.block_meta[3].offset - table.block_meta[2].offset
          # table.block_meta[2].offset

\* The table as build returned it, without a cache.
PristineTable == SsTableBuild(sb, None, TRUE).table

\* What the call iterator i makes in this step yields when the iterator runs
\* alone, from its own state, on the table t.
SoloResult(t, i) ==
    LET op == sop'[i].op
        q == sop'[i].target
    IN  CASE op = "create_and_seek_to_first" -> SstCreateAndSeekToFirst(t)
          [] op = "create_and_seek_to_key" -> SstCreateAndSeekToKey(t, q)
          [] op = "seek_to_first" -> SstSeekToFirst(t, its[i][1])
          [] op = "seek_to_key" -> SstSeekToKey(t, its[i][1], q)
          [] op = "next" -> SstNext(t, its[i][1])

\* What an iterator shows its caller.
Observed(t, it) ==
    [is_valid |-> SstIsValid(t, it), key |-> SstKey(it), value |-> SstValue(it)]

\* C12: with two iterators over one table and their operations interleaved
\* in any order, each operation of an iterator leaves the other iterator as
\* it was and yields what it yields when the iterator runs alone on the
\* table as built (the same result, the same is_valid, key and value, the
\* same cursor), and no operation changes the table's meta sequence, meta
\* offset or file bytes; a cached block is the block of the file.
C12_IteratorsDoNotInterfere ==
    [][(comp = "sst" /\ sphase = "built") =>
        LET built == PristineTable
        IN  /\ [table EXCEPT !.block_cache = None] = built
            /\ [table' EXCEPT !.block_cache = None] = built
            /\ file' = file
            /\ table'.block_cache # None =>
                  \A e \in table'.block_cache[1] :
                      e.block = ReadBlockFromFile(built, e.idx).block
            /\ \A i \in DOMAIN its :
                  (its'[i] # its[i] \/ sop'[i] # sop[i]) =>
                      LET alone == SoloResult(built, i)
                      IN  /\ \A j \in DOMAIN its \ {i} :
                                its'[j] = its[j] /\ sop'[j] = sop[j]
                          /\ sop'[i].res = alone.res
                          /\ sop'[i].res = "ok" =>
                                /\ its'[i] = Some(alone.it)
                                /\ Observed(table', its'[i][1])
                                     = Observed(built, alone.it)]_vars

\* Iterator a has walked into the third block and iterator b has entered the
\* second, cached, block by a seek.
C12_Witness ==
    /\ comp = "sst" /\ sphase = "built"
    /\ DOMAIN its = {"a", "b"} /\ its["a"] # None /\ its["b"] # None
    /\ sop["a"].op = "next" /\ sop["b"].op = "seek_to_key"
    /\ SstIsValid(table, its["a"][1]) /\ SstIsValid(table, its["b"][1])
    /\ its["a"][1].blk_idx = 2 /\ its["b"][1].blk_idx = 1
    /\ Cached(table, 0) /\ Cached(table, 1) /\ Cached(table, 2)

\* C15: is_valid() is true exactly when blk_idx < meta.len() and the block
\* iterator holds a key; the next() that steps past the last entry of the
\* last block returns Ok, reads no block and leaves the iterator invalid with
\* blk_idx = meta.len(); next() on an invalid iterator returns the error,
\* reads no block, and leaves the iterator invalid, so it stays invalid under
\* every further next().
C15_InvalidAfterLastEntry ==
    [][(comp = "sst" /\ sphase = "built") =>
        \A i \in DOMAIN its :
            /\ its[i] # None =>
                  (SstIsValid(table, its[i][1])
                     <=> (/\ its[i][1].blk_idx < Len(table.block_meta)
                          /\ its[i][1].blk_iter.key # <<>>))
            /\ (/\ its[i] # None /\ sop'[i].op = "next"
                /\ (its'[i] # its[i] \/ sop'[i] # sop[i])) =>
                  LET n == Len(table.block_meta)
                      before == its[i][1]
                      after == its'[i][1]
                      valid_before == before.blk_idx < n /\ before.blk_iter.key # <<>>
                      valid_after == after.blk_idx < n /\ after.blk_iter.key # <<>>
                  IN  /\ (valid_before /\ SstRead(before) = added[Len(added)]) =>
                            /\ sop'[i].res = "ok"
                            /\ sop'[i].reads = <<>>
                            /\ ~valid_after
                            /\ after.blk_idx = n
                      /\ ~valid_before =>
                            /\ sop'[i].res = NotValidError
                            /\ sop'[i].reads = <<>>
                            /\ table' = table
                            /\ ~valid_after
                            /\ after.blk_idx = before.blk_idx]_vars

\* After a scan of three blocks to the end, one more next() has failed.
C15_Witness ==
    /\ comp = "sst" /\ sphase = "built" /\ its["a"] # None
    /\ sop["a"].op = "next" /\ sop["a"].res = NotValidError
    /\ sop["a"].scan = Some(added) /\ sop["a"].reads = <<>>
    /\ Len(table.block_meta) = 3 /\ its["a"][1].blk_idx = 3

\* C18: create_and_seek_to_key(table, key) does what create_and_seek_to_first
\* (table) followed by seek_to_key(key) does, for every table and key, keys
\* greater than last_key included: both return Ok, with the same validity
\* and, when valid, the same key() and value(), and neither passes an index
\* outside [0, meta.len()) to read_block_cached.
C18_CreateAndSeekToKeyIsSeek ==
    (comp = "sst" /\ sphase = "built") =>
        \A i \in DOMAIN its :
            sop[i].op = "create_and_seek_to_key" =>
                LET n == Len(table.block_meta)
                    first == SstCreateAndSeekToFirst(table)
                    two == SstSeekToKey(CacheAfter(table, first.reads), first.it,
                                        sop[i].target)
                    InRange(reads) == \A k \in 1..Len(reads) : reads[k] < n
                IN  /\ first.res = "ok" /\ two.res = "ok"
                    /\ InRange(first.reads) /\ InRange(two.reads)
                    /\ InRange(sop[i].reads)
                    /\ sop[i].res = "ok"
                    /\ its[i] # None
                    /\ SstIsValid(table, its[i][1]) <=> SstIsValid(table, two.it)
                    /\ SstIsValid(table, two.it) => SstRead(its[i][1]) = SstRead(two.it)

Spec == Init /\ [][Next]_vars

====
